---- MODULE Spec2Model ----
(***************************************************************************)
(* Model of the KJA_scripts command-line utilities of mutatex:             *)
(*   generate_mutatex_position_list_from_mutinfo.py  (position list from   *)
(*       a mutinfo.txt file), and                                          *)
(*   ddg2heatmap_wrapper.py  (filter a position list against the energy    *)
(*       files present, then run ddg2heatmap on the filtered list).        *)
(* Text is a sequence of one-character strings, so that splitting,         *)
(* stripping, matching and joining are computed and not assumed.           *)
(***************************************************************************)
EXTENDS Integers, Sequences, FiniteSets, TLC

(***************************************************************************)
(* Characters and strings                                                  *)
(***************************************************************************)
NL == "\n"

Digits == <<"0", "1", "2", "3", "4", "5", "6", "7", "8", "9">>

UpperCase == <<"A", "B", "C", "D", "E", "F", "G", "H", "I", "J", "K", "L", "M",
               "N", "O", "P", "Q", "R", "S", "T", "U", "V", "W", "X", "Y", "Z">>

LowerCase == <<"a", "b", "c", "d", "e", "f", "g", "h", "i", "j", "k", "l", "m",
               "n", "o", "p", "q", "r", "s", "t", "u", "v", "w", "x", "y", "z">>

\* The characters of the model in code-point order (str comparison in Python
\* is by code point).
CodePoints == <<"\t", NL, " ", "#", ",", "-", ".">> \o Digits \o <<":">>
                 \o UpperCase \o <<"_">> \o LowerCase

Range(s) == {s[i] : i \in 1..Len(s)}

Ord(c) == CHOOSE i \in 1..Len(CodePoints) : CodePoints[i] = c

IsDigit(c) == c \in Range(Digits)

IsUpper(c) == c \in Range(UpperCase)

\* str.strip() with no argument removes leading and trailing whitespace.
IsSpace(c) == c \in {" ", "\t", NL}

DigitVal(c) == (CHOOSE i \in 1..10 : Digits[i] = c) - 1

RECURSIVE LStrip(_)
LStrip(s) == IF s # <<>> /\ IsSpace(Head(s)) THEN LStrip(Tail(s)) ELSE s

RECURSIVE RStrip(_)
RStrip(s) ==
  IF s # <<>> /\ IsSpace(s[Len(s)]) THEN RStrip(SubSeq(s, 1, Len(s) - 1)) ELSE s

Strip(s) == RStrip(LStrip(s))

\* s.split(sep): the parts between the occurrences of the one character sep;
\* "" splits to [""]
RECURSIVE SplitFrom(_, _, _)
SplitFrom(s, sep, cur) ==
  IF s = <<>> THEN <<cur>>
  ELSE IF Head(s) = sep THEN <<cur>> \o SplitFrom(Tail(s), sep, <<>>)
  ELSE SplitFrom(Tail(s), sep, Append(cur, Head(s)))

Split(s, sep) == SplitFrom(s, sep, <<>>)

\* s.split(sep, 1)[0]: the text before the first sep, all of s when there is none
RECURSIVE FirstField(_, _)
FirstField(s, sep) ==
  IF s = <<>> \/ Head(s) = sep THEN <<>>
  ELSE <<Head(s)>> \o FirstField(Tail(s), sep)

StartsWith(s, c) == s # <<>> /\ Head(s) = c

\* int(digits) for a non-empty string of decimal digits
RECURSIVE IntOf(_)
IntOf(ds) ==
  IF ds = <<>> THEN 0
  ELSE 10 * IntOf(SubSeq(ds, 1, Len(ds) - 1)) + DigitVal(ds[Len(ds)])

\* sep.join(parts)
RECURSIVE Join(_, _)
Join(sep, parts) ==
  IF parts = <<>> THEN <<>>
  ELSE IF Len(parts) = 1 THEN parts[1]
  ELSE parts[1] \o <<sep>> \o Join(sep, Tail(parts))

\* str.splitlines() on text whose only line terminator is "\n": a final
\* terminator ends the last line and does not open an empty one
RECURSIVE SplitLinesFrom(_, _)
SplitLinesFrom(s, cur) ==
  IF s = <<>> THEN (IF cur = <<>> THEN <<>> ELSE <<cur>>)
  ELSE IF Head(s) = NL THEN <<cur>> \o SplitLinesFrom(Tail(s), <<>>)
  ELSE SplitLinesFrom(Tail(s), Append(cur, Head(s)))

SplitLines(s) == SplitLinesFrom(s, <<>>)

\* Python's < on str
RECURSIVE StrLess(_, _)
StrLess(a, b) ==
  IF b = <<>> THEN FALSE
  ELSE IF a = <<>> THEN TRUE
  ELSE IF Head(a) = Head(b) THEN StrLess(Tail(a), Tail(b))
  ELSE Ord(Head(a)) < Ord(Head(b))

(***************************************************************************)
(* generate_mutatex_position_list_from_mutinfo.py                          *)
(***************************************************************************)
None == [ok |-> FALSE]

\* the match made without regard to case
MatchWtAa_anycase(wt_aa) ==
  Len(wt_aa) = 1 /\ (IsUpper(wt_aa[1]) \/ wt_aa[1] \in Range(LowerCase))

\* re.fullmatch(r"[A-Z]", wt_aa)
MatchWtAa(wt_aa) == Len(wt_aa) = 1 /\ IsUpper(wt_aa[1])

\* group(1) of re.fullmatch(r"(\d+)([A-Z]?)", resnum_str), None without a match
MatchResnum(resnum_str) ==
  LET n == Len(resnum_str)
      allDigits(s) == \A i \in 1..Len(s) : IsDigit(s[i])
  IN IF n >= 1 /\ allDigits(resnum_str) THEN [ok |-> TRUE, group1 |-> resnum_str]
     ELSE IF n >= 2 /\ IsUpper(resnum_str[n]) /\ allDigits(SubSeq(resnum_str, 1, n - 1))
          THEN [ok |-> TRUE, group1 |-> SubSeq(resnum_str, 1, n - 1)]
     ELSE None

\* _extract_position: the tuple (wt_aa, chain, resnum_str, resnum_int) of a
\* first-field token, None for a malformed one
ExtractPosition(token) ==
  LET parts == Split(token, ".")
  IN IF Len(parts) < 3 THEN None
     ELSE LET chain == parts[1]
              wt_aa == parts[2]
              resnum_str == parts[3]
          IN IF ~MatchWtAa(wt_aa) THEN None
             ELSE LET match == MatchResnum(resnum_str)
                  IN IF match = None THEN None
                     ELSE [ok |-> TRUE, wt_aa |-> wt_aa, chain |-> chain,
                           resnum_str |-> resnum_str,
                           resnum_int |-> IntOf(match.group1)]

\* the identifier with the chain put first
PositionIdentifier_chainFirst(wt_aa, chain, resnum_str) == chain \o wt_aa \o resnum_str

\* _position_identifier
PositionIdentifier(wt_aa, chain, resnum_str) == wt_aa \o chain \o resnum_str

\* the key built from the residue number as text: (t[1], t[2])
KeyLess_text(a, b) ==
  \/ StrLess(a.chain, b.chain)
  \/ a.chain = b.chain /\ StrLess(a.resnum_str, b.resnum_str)

\* key=lambda t: (t[1], t[3]) under Python's tuple comparison
KeyLess(a, b) ==
  \/ StrLess(a.chain, b.chain)
  \/ a.chain = b.chain /\ a.resnum_int < b.resnum_int

\* sorted() is stable: an element goes after every element already placed
\* whose key is not greater than its own
RECURSIVE InsertByKey(_, _)
InsertByKey(done, t) ==
  IF done = <<>> THEN <<t>>
  ELSE IF KeyLess(t, Head(done)) THEN <<t>> \o done
  ELSE <<Head(done)>> \o InsertByKey(Tail(done), t)

\* the list left in the iteration order of the set
SortedByKey_unsorted(iter) == iter

RECURSIVE SortedByKey(_)
SortedByKey(iter) ==
  IF iter = <<>> THEN <<>>
  ELSE InsertByKey(SortedByKey(SubSeq(iter, 1, Len(iter) - 1)), iter[Len(iter)])

\* The orders in which iterating a set can yield its elements: the order of a
\* set of tuples of str follows the per-process string hash seed
IterationOrders(S) ==
  {f \in [1..Cardinality(S) -> S] : \A i, j \in DOMAIN f : i # j => f[i] # f[j]}

(***************************************************************************)
(* Inputs of the model                                                     *)
(***************************************************************************)
\* "A.A.25.A,A-A25A,A25A,A25"
L_example == <<"A", ".", "A", ".", "2", "5", ".", "A", ",", "A", "-", "A", "2", "5", "A", ",", "A", "2", "5", "A", ",", "A", "2", "5">>

\* "A.A.25.C,A-A25C,A25C,A25"
L_mutantC == <<"A", ".", "A", ".", "2", "5", ".", "C", ",", "A", "-", "A", "2", "5", "C", ",", "A", "2", "5", "C", ",", "A", "2", "5">>

\* "A.G.9.C"
L_res9 == <<"A", ".", "G", ".", "9", ".", "C">>

\* "A.G.10.C"
L_res10 == <<"A", ".", "G", ".", "1", "0", ".", "C">>

\* "A.A.25A.C"
L_inscode == <<"A", ".", "A", ".", "2", "5", "A", ".", "C">>

\* "A.C.25.D"
L_otherWt == <<"A", ".", "C", ".", "2", "5", ".", "D">>

\* "A1.K.2.C"
L_chainA1 == <<"A", "1", ".", "K", ".", "2", ".", "C">>

\* "A.K.12.C"
L_chainA == <<"A", ".", "K", ".", "1", "2", ".", "C">>

\* "B.W.3"
L_chainB3 == <<"B", ".", "W", ".", "3">>

\* "  B.W.4.A "
L_padded == <<" ", " ", "B", ".", "W", ".", "4", ".", "A", " ">>

\* ""
L_empty == <<>>

\* "  "
L_blank == <<" ", " ">>

\* "#A.A.7.C"
L_comment == <<"#", "A", ".", "A", ".", "7", ".", "C">>

\* " # note"
L_indented == <<" ", "#", " ", "n", "o", "t", "e">>

\* "A.1.25.A,A-125A"
L_badWt == <<"A", ".", "1", ".", "2", "5", ".", "A", ",", "A", "-", "1", "2", "5", "A">>

\* "A.A"
L_twoParts == <<"A", ".", "A">>

\* "A.A.2AB.C"
L_badResnum == <<"A", ".", "A", ".", "2", "A", "B", ".", "C">>

\* "A.a.5.C"
L_lowerWt == <<"A", ".", "a", ".", "5", ".", "C">>

MutinfoLines ==
  {L_example, L_mutantC, L_res9, L_res10, L_inscode, L_otherWt, L_chainA1,
   L_chainA, L_chainB3, L_padded, L_empty, L_blank, L_comment, L_indented,
   L_badWt, L_twoParts, L_badResnum, L_lowerWt}

\* the most lines a mutinfo file of the model holds
MaxLines == 2

SeqsUpTo(S, n) == UNION {[1..k -> S] : k \in 0..n}

\* what the output path can hold before the program runs: "WB1\n"
StaleOutput == <<"W", "B", "1", NL>>

(***************************************************************************)
(* State                                                                   *)
(***************************************************************************)
VARIABLES
  mutinfo,          \* the file at args.mutinfo: [exists, lines]
  outfile,          \* the file at args.output: [exists, text]
  out_before,       \* the file at args.output when main started
  pc,               \* where main is
  idx,              \* the line the for loop of generate_position_list reads next
  positions,        \* the set positions
  sorted_positions, \* the list sorted_positions
  position_list,    \* the list generate_position_list returned
  stdout,           \* what main printed, in order
  n_writes,         \* how often this run opened args.output for writing
  run,              \* 1 in the first run of the program, 2 in the second
  first             \* input, returned list and output file of the first run

VARIABLES
  w_exists,         \* which of the paths pdb, mutlist, poslist, datadir exist
  w_posfile,        \* the text of the position list file
  w_posfile_before, \* the text of the position list file when main started
  w_energy,         \* the names that are regular files in the data directory
  w_keep_temp,      \* args.keep_temp
  w_pc,             \* where main of the wrapper is
  w_chk,            \* the path the for loop of main tests next
  w_positions,      \* the list positions of _filter_positions
  w_i,              \* the position the for loop of _filter_positions reads next
  w_available,      \* the list available
  w_missing,        \* the list missing
  w_tmp,            \* the temporary file: [exists, text]
  w_n_removed,      \* n_removed
  w_proc,           \* ddg2heatmap: "none", "running", "ok", "nonzero", "nostart"
  w_handed,         \* the text of the file at -q as ddg2heatmap was started
  w_stderr          \* what the wrapper wrote to stderr, in order

wvars == <<w_exists, w_posfile, w_posfile_before, w_energy, w_keep_temp, w_pc,
           w_chk, w_positions, w_i, w_available, w_missing, w_tmp, w_n_removed,
           w_proc, w_handed, w_stderr>>

mvars == <<mutinfo, outfile, out_before, pc, idx, positions, sorted_positions,
           position_list, stdout, n_writes, run, first>>

NoRun == [input |-> <<>>, list |-> <<>>, out |-> [exists |-> FALSE, text |-> <<>>]]

MInit ==
  /\ mutinfo \in {[exists |-> FALSE, lines |-> <<>>]}
                 \cup {[exists |-> TRUE, lines |-> l] : l \in SeqsUpTo(MutinfoLines, MaxLines)}
  /\ outfile \in {[exists |-> FALSE, text |-> <<>>], [exists |-> TRUE, text |-> StaleOutput]}
  /\ out_before = outfile
  /\ pc = "start"
  /\ idx = 1
  /\ positions = {}
  /\ sorted_positions = <<>>
  /\ position_list = <<>>
  /\ stdout = <<>>
  /\ n_writes = 0
  /\ run = 1
  /\ first = NoRun

(***************************************************************************)
(* main and generate_position_list, one action per step                    *)
(***************************************************************************)
\* main without the is_file test: a missing file is read as an empty one
CheckInput_unchecked ==
  /\ pc = "start"
  /\ pc' = "scan"
  /\ UNCHANGED <<mutinfo, outfile, out_before, idx, positions, sorted_positions,
                 position_list, stdout, n_writes, run, first>>
  /\ UNCHANGED wvars

\* main, lines 108-112: a missing mutinfo file raises SystemExit
CheckInput ==
  /\ pc = "start"
  /\ pc' = IF mutinfo.exists THEN "scan" ELSE "aborted"
  /\ UNCHANGED <<mutinfo, outfile, out_before, idx, positions, sorted_positions,
                 position_list, stdout, n_writes, run, first>>
  /\ UNCHANGED wvars

\* one pass of the for loop, lines 91-100
ScanLine ==
  /\ pc = "scan"
  /\ idx <= Len(mutinfo.lines)
  /\ LET line == Strip(mutinfo.lines[idx])
         parsed == ExtractPosition(FirstField(line, ","))
     IN IF line = <<>> \/ StartsWith(line, "#")
        THEN UNCHANGED <<positions, stdout>>
        ELSE IF parsed = None
        THEN /\ stdout' = Append(stdout, [kind |-> "WARN", line |-> line])
             /\ UNCHANGED positions
        ELSE /\ positions' = positions \cup {parsed}
             /\ UNCHANGED stdout
  /\ idx' = idx + 1
  /\ UNCHANGED <<mutinfo, outfile, out_before, pc, sorted_positions,
                 position_list, n_writes, run, first>>
  /\ UNCHANGED wvars

\* lines 103-104, once the loop has read every line
SortPositions ==
  /\ pc = "scan"
  /\ idx > Len(mutinfo.lines)
  /\ \E iter \in IterationOrders(positions) :
       /\ sorted_positions' = SortedByKey(iter)
       /\ position_list' =
            [i \in 1..Len(iter) |->
               PositionIdentifier(sorted_positions'[i].wt_aa, sorted_positions'[i].chain,
                                  sorted_positions'[i].resnum_str)]
  /\ pc' = "write"
  /\ UNCHANGED <<mutinfo, outfile, out_before, idx, positions, stdout, n_writes,
                 run, first>>
  /\ UNCHANGED wvars

\* main, lines 116-118
WriteOutput ==
  /\ pc = "write"
  /\ outfile' = [exists |-> TRUE, text |-> Join(NL, position_list) \o <<NL>>]
  /\ n_writes' = n_writes + 1
  /\ pc' = "report"
  /\ UNCHANGED <<mutinfo, out_before, idx, positions, sorted_positions,
                 position_list, stdout, run, first>>
  /\ UNCHANGED wvars

\* main, line 120
Report ==
  /\ pc = "report"
  /\ stdout' = Append(stdout, [kind |-> "OK", n |-> Len(position_list)])
  /\ pc' = "done"
  /\ UNCHANGED <<mutinfo, outfile, out_before, idx, positions, sorted_positions,
                 position_list, n_writes, run, first>>
  /\ UNCHANGED wvars

\* The program is run a second time on the same lines, in the same or in
\* another order.
RunAgain ==
  /\ run = 1
  /\ pc \in {"done", "aborted"}
  /\ first' = [input |-> mutinfo.lines, list |-> position_list, out |-> outfile]
  /\ \E p \in IterationOrders(1..Len(mutinfo.lines)) :
       mutinfo' = [mutinfo EXCEPT !.lines = [i \in 1..Len(mutinfo.lines) |-> mutinfo.lines[p[i]]]]
  /\ out_before' = outfile
  /\ pc' = "start"
  /\ idx' = 1
  /\ positions' = {}
  /\ sorted_positions' = <<>>
  /\ position_list' = <<>>
  /\ stdout' = <<>>
  /\ n_writes' = 0
  /\ run' = 2
  /\ UNCHANGED outfile
  /\ UNCHANGED wvars

MNext == CheckInput \/ ScanLine \/ SortPositions \/ WriteOutput \/ Report \/ RunAgain

vars == <<mvars, wvars>>

(***************************************************************************)
(* ddg2heatmap_wrapper.py                                                  *)
(***************************************************************************)
\* the text of a file written one entry and "\n" at a time
RECURSIVE ConcatLines(_)
ConcatLines(entries) ==
  IF entries = <<>> THEN <<>>
  ELSE Head(entries) \o <<NL>> \o ConcatLines(Tail(entries))

\* [line.strip() for line in text.splitlines() if line.strip()]
StrippedLines(text) ==
  LET ls == SplitLines(text)
  IN SelectSeq([i \in 1..Len(ls) |-> Strip(ls[i])], LAMBDA l : l # <<>>)

\* "AA25"
P_AA25 == <<"A", "A", "2", "5">>

\* "GA9"
P_GA9 == <<"G", "A", "9">>

\* "WB3"
P_WB3 == <<"W", "B", "3">>

\* " GA9 "
P_GA9padded == <<" ", "G", "A", "9", " ">>

PositionLines == {P_AA25, P_GA9padded, P_WB3, <<>>}

\* the energy files the data directory can hold
EnergyNames == {P_AA25, P_GA9}

\* the most lines a position list file of the model holds
MaxPositions == 2

\* the paths main tests with is_file, in the order of the for loop
CheckedFiles == <<"pdb", "mutlist", "poslist">>

NoFile == [exists |-> FALSE, text |-> <<>>]

WInit ==
  /\ w_exists \in [{"pdb", "mutlist", "poslist", "datadir"} -> BOOLEAN]
  /\ w_posfile \in
       IF w_exists["poslist"]
       THEN {ConcatLines(ls) : ls \in SeqsUpTo(PositionLines, MaxPositions)}
              \cup {Join(NL, ls) : ls \in SeqsUpTo(PositionLines, MaxPositions)}
       ELSE {<<>>}
  /\ w_posfile_before = w_posfile
  /\ w_energy \in (IF w_exists["datadir"] THEN SUBSET EnergyNames ELSE {{}})
  /\ w_keep_temp \in BOOLEAN
  /\ w_pc = "check"
  /\ w_chk = 1
  /\ w_positions = <<>>
  /\ w_i = 1
  /\ w_available = <<>>
  /\ w_missing = <<>>
  /\ w_tmp = NoFile
  /\ w_n_removed = 0
  /\ w_proc = "none"
  /\ w_handed = <<>>
  /\ w_stderr = <<>>

\* the wrapper when it is not run
WIdle ==
  /\ w_exists = [f \in {"pdb", "mutlist", "poslist", "datadir"} |-> FALSE]
  /\ w_posfile = <<>>
  /\ w_posfile_before = <<>>
  /\ w_energy = {}
  /\ w_keep_temp = FALSE
  /\ w_pc = "idle"
  /\ w_chk = 1
  /\ w_positions = <<>>
  /\ w_i = 1
  /\ w_available = <<>>
  /\ w_missing = <<>>
  /\ w_tmp = NoFile
  /\ w_n_removed = 0
  /\ w_proc = "none"
  /\ w_handed = <<>>
  /\ w_stderr = <<>>

\* the position list generator when it is not run
MIdle ==
  /\ mutinfo = [exists |-> FALSE, lines |-> <<>>]
  /\ outfile = NoFile
  /\ out_before = NoFile
  /\ pc = "idle"
  /\ idx = 1
  /\ positions = {}
  /\ sorted_positions = <<>>
  /\ position_list = <<>>
  /\ stdout = <<>>
  /\ n_writes = 0
  /\ run = 1
  /\ first = NoRun

\* main, lines 95-97: one pass of the loop over (pdb, mutlist, poslist)
W_CheckFile ==
  /\ w_pc = "check"
  /\ IF ~w_exists[CheckedFiles[w_chk]]
     THEN /\ w_stderr' = Append(w_stderr, [kind |-> "NOTFOUND", path |-> CheckedFiles[w_chk]])
          /\ w_pc' = "exit_missing"
          /\ UNCHANGED w_chk
     ELSE /\ w_pc' = (IF w_chk = Len(CheckedFiles) THEN "checkdir" ELSE "check")
          /\ w_chk' = w_chk + 1
          /\ UNCHANGED w_stderr
  /\ UNCHANGED <<w_exists, w_posfile, w_posfile_before, w_energy, w_keep_temp,
                 w_positions, w_i, w_available, w_missing, w_tmp, w_n_removed,
                 w_proc, w_handed>>
  /\ UNCHANGED mvars

\* main, lines 99-100
W_CheckDir ==
  /\ w_pc = "checkdir"
  /\ IF ~w_exists["datadir"]
     THEN /\ w_stderr' = Append(w_stderr, [kind |-> "NOTFOUND", path |-> "datadir"])
          /\ w_pc' = "exit_missing"
     ELSE /\ w_pc' = "read"
          /\ UNCHANGED w_stderr
  /\ UNCHANGED <<w_exists, w_posfile, w_posfile_before, w_energy, w_keep_temp,
                 w_chk, w_positions, w_i, w_available, w_missing, w_tmp,
                 w_n_removed, w_proc, w_handed>>
  /\ UNCHANGED mvars

\* _filter_positions, lines 60-62
W_ReadPositions ==
  /\ w_pc = "read"
  /\ w_positions' = StrippedLines(w_posfile)
  /\ w_i' = 1
  /\ w_available' = <<>>
  /\ w_missing' = <<>>
  /\ w_pc' = "classify"
  /\ UNCHANGED <<w_exists, w_posfile, w_posfile_before, w_energy, w_keep_temp,
                 w_chk, w_tmp, w_n_removed, w_proc, w_handed, w_stderr>>
  /\ UNCHANGED mvars

\* the loop without its else branch, every position taken as available
W_Classify_all ==
  /\ w_pc = "classify"
  /\ w_i <= Len(w_positions)
  /\ w_available' = Append(w_available, w_positions[w_i])
  /\ w_i' = w_i + 1
  /\ UNCHANGED <<w_exists, w_posfile, w_posfile_before, w_energy, w_keep_temp,
                 w_pc, w_chk, w_positions, w_missing, w_tmp, w_n_removed, w_proc,
                 w_handed, w_stderr>>
  /\ UNCHANGED mvars

\* _filter_positions, lines 64-69: one pass of the loop
W_Classify ==
  /\ w_pc = "classify"
  /\ w_i <= Len(w_positions)
  /\ IF w_positions[w_i] \in w_energy
     THEN /\ w_available' = Append(w_available, w_positions[w_i])
          /\ UNCHANGED w_missing
     ELSE /\ w_missing' = Append(w_missing, w_positions[w_i])
          /\ UNCHANGED w_available
  /\ w_i' = w_i + 1
  /\ UNCHANGED <<w_exists, w_posfile, w_posfile_before, w_energy, w_keep_temp,
                 w_pc, w_chk, w_positions, w_tmp, w_n_removed, w_proc, w_handed,
                 w_stderr>>
  /\ UNCHANGED mvars

\* _filter_positions, lines 71-84, and the return to main at line 102
W_WriteTemp ==
  /\ w_pc = "classify"
  /\ w_i > Len(w_positions)
  /\ w_stderr' =
       IF w_missing # <<>>
       THEN w_stderr \o <<[kind |-> "EXCLUDING", n |-> Len(w_missing)]>>
              \o [i \in 1..Len(w_missing) |-> [kind |-> "MISSING", pos |-> w_missing[i]]]
       ELSE Append(w_stderr, [kind |-> "ALL_PRESENT"])
  /\ w_tmp' = [exists |-> TRUE, text |-> ConcatLines(w_available)]
  /\ w_n_removed' = Len(w_missing)
  /\ w_pc' = "launch"
  /\ UNCHANGED <<w_exists, w_posfile, w_posfile_before, w_energy, w_keep_temp,
                 w_chk, w_positions, w_i, w_available, w_missing, w_proc, w_handed>>
  /\ UNCHANGED mvars

\* main, lines 104-121: subprocess.run starts ddg2heatmap, or raises when the
\* command cannot be started
W_Launch ==
  /\ w_pc = "launch"
  /\ w_stderr' = Append(w_stderr, [kind |-> "RUNNING"])
  /\ \/ /\ w_proc' = "running"
        /\ w_handed' = w_tmp.text
        /\ w_pc' = "running"
     \/ /\ w_proc' = "nostart"
        /\ w_pc' = "finally"
        /\ UNCHANGED w_handed
  /\ UNCHANGED <<w_exists, w_posfile, w_posfile_before, w_energy, w_keep_temp,
                 w_chk, w_positions, w_i, w_available, w_missing, w_tmp,
                 w_n_removed>>
  /\ UNCHANGED mvars

\* ddg2heatmap ends: subprocess.run(check=True) returns on exit status 0 and
\* raises CalledProcessError on any other
W_ProcessExit ==
  /\ w_pc = "running"
  /\ w_proc' \in {"ok", "nonzero"}
  /\ w_pc' = "finally"
  /\ UNCHANGED <<w_exists, w_posfile, w_posfile_before, w_energy, w_keep_temp,
                 w_chk, w_positions, w_i, w_available, w_missing, w_tmp,
                 w_n_removed, w_handed, w_stderr>>
  /\ UNCHANGED mvars

\* the file removed after the try statement, which an exception skips
W_Finally_afterTry ==
  /\ w_pc = "finally"
  /\ w_tmp' = IF w_keep_temp \/ w_proc # "ok" THEN w_tmp ELSE NoFile
  /\ w_pc' = (IF w_proc = "ok" THEN "epilogue" ELSE "exit_error")
  /\ UNCHANGED <<w_exists, w_posfile, w_posfile_before, w_energy, w_keep_temp,
                 w_chk, w_positions, w_i, w_available, w_missing, w_n_removed,
                 w_proc, w_handed, w_stderr>>
  /\ UNCHANGED mvars

\* main, lines 122-127: the finally clause, after which an exception of
\* subprocess.run goes on to end the process
W_Finally ==
  /\ w_pc = "finally"
  /\ w_tmp' = IF w_keep_temp THEN w_tmp ELSE NoFile
  /\ w_pc' = (IF w_proc = "ok" THEN "epilogue" ELSE "exit_error")
  /\ UNCHANGED <<w_exists, w_posfile, w_posfile_before, w_energy, w_keep_temp,
                 w_chk, w_positions, w_i, w_available, w_missing, w_n_removed,
                 w_proc, w_handed, w_stderr>>
  /\ UNCHANGED mvars

\* main, lines 129-131
W_Epilogue ==
  /\ w_pc = "epilogue"
  /\ w_stderr' =
       IF w_n_removed # 0
       THEN w_stderr \o <<[kind |-> "COMPLETED"], [kind |-> "FILTERED", n |-> w_n_removed]>>
       ELSE Append(w_stderr, [kind |-> "COMPLETED"])
  /\ w_pc' = "done"
  /\ UNCHANGED <<w_exists, w_posfile, w_posfile_before, w_energy, w_keep_temp,
                 w_chk, w_positions, w_i, w_available, w_missing, w_tmp,
                 w_n_removed, w_proc, w_handed>>
  /\ UNCHANGED mvars

WNext ==
  \/ W_CheckFile \/ W_CheckDir \/ W_ReadPositions \/ W_Classify \/ W_WriteTemp
  \/ W_Launch \/ W_ProcessExit \/ W_Finally \/ W_Epilogue

\* The wrapper, run once; the position list generator is not run.
InitW == WInit /\ MIdle

SpecW == InitW /\ [][WNext]_vars

\* main runs to its end once ddg2heatmap has ended: the finally clause is
\* always taken
FairSpecW == SpecW /\ WF_vars(W_Finally)

\* The position list generator, run twice; the wrapper is not run.
Init == MInit /\ WIdle

Next == MNext

Spec == Init /\ [][Next]_vars

(***************************************************************************)
(* What the specification says of a record, stated on the text of the line *)
(* (the line as the loop tests and prints it: without surrounding          *)
(* whitespace) and not through the parser above                            *)
(***************************************************************************)
Min(S) == CHOOSE x \in S : \A y \in S : x <= y

\* a candidate record: a non-empty line that does not begin with '#'
IsCandidate(line) == Len(line) >= 1 /\ line[1] # "#"

\* the first comma-delimited field
TokenOf(line) ==
  LET commas == {i \in 1..Len(line) : line[i] = ","}
  IN SubSeq(line, 1, Min(commas \cup {Len(line) + 1}) - 1)

DotsOf(tok) == {i \in 1..Len(tok) : tok[i] = "."}

\* the fields <chain>.<wildTypeResidue>.<residueNumber> of a token with at
\* least three dot-separated parts
FieldsOf(tok) ==
  LET d1 == Min(DotsOf(tok))
      d2 == Min(DotsOf(tok) \ {d1})
      d3 == Min((DotsOf(tok) \ {d1, d2}) \cup {Len(tok) + 1})
  IN [chain |-> SubSeq(tok, 1, d1 - 1),
      wildTypeResidue |-> SubSeq(tok, d1 + 1, d2 - 1),
      residueNumber |-> SubSeq(tok, d2 + 1, d3 - 1)]

\* the length of the digit prefix of a residue number
PrefixLen(r) == Min({i \in 0..Len(r) : i = Len(r) \/ ~IsDigit(r[i + 1])})

\* one or more digits, optionally followed by exactly one uppercase letter
IsResidueNumber(r) ==
  /\ PrefixLen(r) >= 1
  /\ \/ PrefixLen(r) = Len(r)
     \/ PrefixLen(r) = Len(r) - 1 /\ IsUpper(r[Len(r)])

IsValidToken(tok) ==
  /\ Cardinality(DotsOf(tok)) >= 2
  /\ LET f == FieldsOf(tok)
     IN /\ Len(f.wildTypeResidue) = 1
        /\ IsUpper(f.wildTypeResidue[1])
        /\ IsResidueNumber(f.residueNumber)

IsValidRecord(line) == IsCandidate(line) /\ IsValidToken(TokenOf(line))

IsInvalidRecord(line) == IsCandidate(line) /\ ~IsValidToken(TokenOf(line))

\* wildTypeResidue + chain + residueNumber_string of a valid record
IdentifierOf(line) ==
  LET f == FieldsOf(TokenOf(line))
  IN f.wildTypeResidue \o f.chain \o f.residueNumber

RECURSIVE Pow10(_)
Pow10(n) == IF n = 0 THEN 1 ELSE 10 * Pow10(n - 1)

RECURSIVE SumOver(_, _)
SumOver(f, S) ==
  IF S = {} THEN 0 ELSE LET x == CHOOSE y \in S : TRUE IN f[x] + SumOver(f, S \ {x})

\* the integer value of the digit prefix of a residue number
NumericPrefix(r) ==
  LET n == PrefixLen(r)
  IN SumOver([i \in 1..n |-> DigitVal(r[i]) * Pow10(n - i)], 1..n)

\* a is b or comes before it, by code point, character by character
LexLeq(a, b) ==
  \/ a = b
  \/ \E k \in 1..Len(b) :
       /\ k <= Len(a) + 1
       /\ SubSeq(a, 1, k - 1) = SubSeq(b, 1, k - 1)
       /\ (k = Len(a) + 1 \/ Ord(a[k]) < Ord(b[k]))

\* (chain, numeric residue prefix) of a is not greater than that of b
SortKeyLeq(a, b) ==
  /\ LexLeq(a.chain, b.chain)
  /\ a.chain = b.chain => NumericPrefix(a.resnum_str) <= NumericPrefix(b.resnum_str)

Returned == pc \in {"write", "report", "done"}

Lines == [i \in 1..Len(mutinfo.lines) |-> Strip(mutinfo.lines[i])]

Warnings == SelectSeq(stdout, LAMBDA m : m.kind = "WARN")

NoRepeat(s) == \A i, j \in 1..Len(s) : i # j => s[i] # s[j]

(***************************************************************************)
(* Claims                                                                  *)
(***************************************************************************)
\* C1: the list generate_position_list returns, and the output file written
\* from it, hold no position identifier more than once, whatever the chains.
C1_NoDuplicateIdentifiers ==
  /\ Returned => NoRepeat(position_list)
  /\ pc = "done" => NoRepeat(SplitLines(outfile.text))

\* C2: the identifiers generate_position_list returns are exactly the
\* wildTypeResidue + chain + residueNumber of the valid records of the input;
\* the mutant residue and the fields after the first comma play no part.
C2_IdentifiersOfValidRecords ==
  Returned =>
    Range(position_list) =
      {IdentifierOf(Lines[i]) : i \in {j \in 1..Len(Lines) : IsValidRecord(Lines[j])}}

C2_Witness ==
  /\ pc = "done"
  /\ Len(mutinfo.lines) = 2
  /\ mutinfo.lines[1] = L_example
  /\ mutinfo.lines[2] = L_badWt
  /\ position_list = <<<<"A", "A", "2", "5">>>>

\* C3: the returned list is in order of (chain, numeric residue prefix): chain
\* by code point first, the integer value of the digit prefix second; each
\* entry is the identifier of the tuple at its place.
C3_OrderedByChainThenNumber ==
  Returned =>
    /\ Len(position_list) = Len(sorted_positions)
    /\ \A i \in 1..Len(sorted_positions) :
         position_list[i] = sorted_positions[i].wt_aa \o sorted_positions[i].chain
                              \o sorted_positions[i].resnum_str
    /\ \A i \in 1..(Len(sorted_positions) - 1) :
         SortKeyLeq(sorted_positions[i], sorted_positions[i + 1])

C3_Witness ==
  /\ pc = "done"
  /\ mutinfo.lines = <<L_res10, L_res9>>
  /\ position_list = <<<<"G", "A", "9">>, <<"G", "A", "1", "0">>>>

\* C4: a second run on the same input file leaves a byte-identical output
\* file, ties on the sort key included.
C4_SecondRunSameBytes ==
  (run = 2 /\ pc = "done" /\ mutinfo.lines = first.input) => outfile = first.out

\* C5: when the valid records of the input have pairwise distinct numeric
\* residue prefixes (records of one position apart), a run on the lines in
\* another order returns the same list.
DistinctNumericPrefixes ==
  \A i, j \in 1..Len(Lines) :
    (IsValidRecord(Lines[i]) /\ IsValidRecord(Lines[j])
       /\ FieldsOf(TokenOf(Lines[i])) # FieldsOf(TokenOf(Lines[j])))
    => NumericPrefix(FieldsOf(TokenOf(Lines[i])).residueNumber)
         # NumericPrefix(FieldsOf(TokenOf(Lines[j])).residueNumber)

C5_OrderIndependentOfLineOrder ==
  (run = 2 /\ Returned /\ DistinctNumericPrefixes) => position_list = first.list

C5_Witness ==
  /\ run = 2
  /\ pc = "done"
  /\ first.input = <<L_chainB3, L_res9>>
  /\ mutinfo.lines = <<L_res9, L_chainB3>>
  /\ position_list = <<<<"G", "A", "9">>, <<"W", "B", "3">>>>

\* C6: the lines warned about so far are exactly the lines read so far that
\* are candidate records with an invalid token, in order; they add nothing to
\* positions; no line ends the run, and every line is read before the sort.
C6_WarnedIffInvalidRecord ==
  /\ Warnings =
       [i \in 1..Len(SelectSeq(SubSeq(Lines, 1, idx - 1), IsInvalidRecord)) |->
          [kind |-> "WARN",
           line |-> SelectSeq(SubSeq(Lines, 1, idx - 1), IsInvalidRecord)[i]]]
  /\ \A t \in positions :
       \E i \in 1..(idx - 1) :
         /\ IsValidRecord(Lines[i])
         /\ FieldsOf(TokenOf(Lines[i])) =
              [chain |-> t.chain, wildTypeResidue |-> t.wt_aa, residueNumber |-> t.resnum_str]
  /\ mutinfo.exists => pc # "aborted"
  /\ Returned => idx = Len(mutinfo.lines) + 1

C6_Witness ==
  /\ pc = "done"
  /\ mutinfo.lines = <<L_badResnum, L_res9>>
  /\ Warnings = <<[kind |-> "WARN", line |-> L_badResnum]>>
  /\ position_list = <<<<"G", "A", "9">>>>

\* C7: without an input file main aborts with the output path untouched,
\* nothing parsed and no count printed; with an input file the run never
\* aborts and ends having written the output file exactly once.
C7_AbortBeforeOutput ==
  /\ ~mutinfo.exists =>
       /\ pc \in {"start", "aborted"}
       /\ outfile = out_before
       /\ n_writes = 0
       /\ idx = 1 /\ positions = {}
       /\ stdout = <<>>
  /\ mutinfo.exists =>
       /\ pc # "aborted"
       /\ n_writes = (IF pc \in {"report", "done"} THEN 1 ELSE 0)
       /\ n_writes = 0 => outfile = out_before
       /\ n_writes = 1 => outfile.exists

C7_Witness ==
  /\ pc = "aborted"
  /\ ~mutinfo.exists
  /\ out_before = [exists |-> TRUE, text |-> StaleOutput]
  /\ outfile = out_before

\* C8: after a successful run the lines of the output file are the position
\* identifiers, one per line, and the count printed is the number of lines of
\* the file, also when there is no valid record.
C8_CountIsNumberOfLines ==
  pc = "done" =>
    /\ SplitLines(outfile.text) = position_list
    /\ stdout[Len(stdout)] = [kind |-> "OK", n |-> Len(SplitLines(outfile.text))]

\* the lines of a text: the stretches between its "\n", an unterminated last
\* stretch included
LinesOfText(text) ==
  LET ends == {i \in 1..Len(text) : text[i] = NL}
                \cup (IF text # <<>> /\ text[Len(text)] # NL THEN {Len(text) + 1} ELSE {})
      startOf(e) == Min({i \in 1..e : \A k \in i..(e - 1) : text[k] # NL})
      nth[k \in 1..Cardinality(ends)] ==
        CHOOSE e \in ends : Cardinality({d \in ends : d < e}) = k - 1
  IN [k \in 1..Cardinality(ends) |-> SubSeq(text, startOf(nth[k]), nth[k] - 1)]

\* a line without its leading and trailing whitespace
Trimmed(l) ==
  LET ink == {i \in 1..Len(l) : ~IsSpace(l[i])}
  IN IF ink = {} THEN <<>>
     ELSE SubSeq(l, Min(ink), CHOOSE i \in ink : \A j \in ink : j <= i)

\* the positions of the input position list: its non-blank lines, stripped
InputPositions ==
  LET ls == LinesOfText(w_posfile_before)
  IN SelectSeq([i \in 1..Len(ls) |-> Trimmed(ls[i])], LAMBDA l : Len(l) > 0)

\* those with a regular file of their name in the data directory
PositionsWithEnergyFile == SelectSeq(InputPositions, LAMBDA pos : pos \in w_energy)

Filtered == w_pc \in {"launch", "running", "finally", "epilogue", "done", "exit_error"}

SomePathMissing == \E f \in DOMAIN w_exists : ~w_exists[f]

\* C9: ddg2heatmap is handed exactly the input positions that have an energy
\* file, in their order and with their repetitions; the number of removed
\* positions reported is the number of input positions less the number
\* handed on; the position list file itself stays as it was.
C9_HandedListIsFilteredInput ==
  /\ w_proc = "running" =>
       /\ w_tmp = [exists |-> TRUE, text |-> w_handed]
       /\ LinesOfText(w_handed) = PositionsWithEnergyFile
  /\ Filtered =>
       LET n == Len(InputPositions) - Len(PositionsWithEnergyFile)
       IN /\ w_n_removed = n
          /\ n > 0 => /\ [kind |-> "EXCLUDING", n |-> n] \in Range(w_stderr)
                      /\ [kind |-> "ALL_PRESENT"] \notin Range(w_stderr)
          /\ n = 0 => /\ [kind |-> "ALL_PRESENT"] \in Range(w_stderr)
                      /\ \A m \in Range(w_stderr) : m.kind # "EXCLUDING"
          /\ \A m \in Range(w_stderr) : m.kind \in {"EXCLUDING", "FILTERED"} => m.n = n
          /\ (w_pc = "done" /\ n > 0) =>
               w_stderr[Len(w_stderr)] = [kind |-> "FILTERED", n |-> n]
  /\ w_posfile = w_posfile_before

C9_Witness ==
  /\ w_proc = "running"
  /\ w_posfile_before = ConcatLines(<<P_WB3, P_GA9padded>>)
  /\ w_energy = {P_GA9}
  /\ w_handed = <<"G", "A", "9", NL>>
  /\ w_n_removed = 1

ProcessEnded == w_proc \in {"ok", "nonzero", "nostart"}

C10_Safety ==
  /\ w_tmp.exists => (~SomePathMissing /\ Filtered)
  /\ SomePathMissing =>
       /\ w_pc \in {"check", "checkdir", "exit_missing"}
       /\ ~w_tmp.exists
       /\ w_proc = "none"
  /\ w_pc = "exit_missing" => (SomePathMissing /\ ~w_tmp.exists /\ w_proc = "none")
  /\ w_proc = "running" => w_tmp.exists
  /\ (Filtered /\ w_keep_temp) => w_tmp.exists
  /\ w_pc \in {"epilogue", "done", "exit_error"} => (w_tmp.exists <=> w_keep_temp)
  /\ [kind |-> "COMPLETED"] \in Range(w_stderr) => w_proc = "ok"

====
